---- MODULE Spec2Model ----
(***************************************************************************)
(* Shared-memory key/value store: the ctypes binding (kv_store_wrapper.py) *)
(* over the C table engine, used by several OS processes at once.          *)
(*                                                                         *)
(* Python strings are sequences of code points, C strings are sequences   *)
(* of non-zero bytes.  The engine's source is not part of the repository   *)
(* files modelled here; its operations follow the design document.         *)
(***************************************************************************)
EXTENDS Integers, Sequences, FiniteSets, TLC

\* ---------------------------------------------------------------- constants
\* kv_store_wrapper.py:16 sets 10; the model runs a smaller table.
MAX_ENTRIES == 2
KEY_SIZE == 64
VALUE_SIZE == 256
ENOENT == 2
ENOSPC == 28
INT_MAX == 2147483647

\* ------------------------------------------------------------------- bounds
NumProcs == 2
MaxMutations == 4
MaxClock == 1
MaxMaps == 2

Procs == 1..NumProcs
\* Segments whose memory some wrapper can reach: at most one per process.
Segs == 1..NumProcs
Slots == 1..MAX_ENTRIES

\* ---------------------------------------------------------------- strings
Min(S) == CHOOSE x \in S : \A y \in S : x <= y

Rep(n, c) == [i \in 1..n |-> c]

Max(S) == CHOOSE x \in S : \A y \in S : x >= y

\* Code points str.encode('utf-8') refuses: the surrogates U+D800..U+DFFF.
Surrogate(c) == c \in 55296..57343

\* What stands for a raised UnicodeEncodeError / UnicodeDecodeError where
\* a byte string or a string was expected.
EncodeError == <<-1>>
DecodeError == <<-1>>

\* str.encode('utf-8') of one code point: one to four bytes.
EncodeChar(c) ==
    IF Surrogate(c) THEN EncodeError
    ELSE IF c < 128 THEN <<c>>
    ELSE IF c < 2048 THEN <<192 + (c \div 64), 128 + (c % 64)>>
    ELSE IF c < 65536
    THEN <<224 + (c \div 4096), 128 + ((c \div 64) % 64), 128 + (c % 64)>>
    ELSE <<240 + (c \div 262144), 128 + ((c \div 4096) % 64),
           128 + ((c \div 64) % 64), 128 + (c % 64)>>

\* The encodings of the code points, concatenated (by halves, to keep the
\* evaluation shallow on strings of VALUE_SIZE code points).
RECURSIVE EncodeAll(_)
EncodeAll(s) ==
    IF s = <<>> THEN <<>>
    ELSE IF Len(s) = 1 THEN EncodeChar(s[1])
    ELSE EncodeAll(SubSeq(s, 1, Len(s) \div 2))
            \o EncodeAll(SubSeq(s, (Len(s) \div 2) + 1, Len(s)))

\* str.encode('utf-8'): an ASCII string is its own encoding; the call
\* raises when the string holds a surrogate.
Utf8Encode(s) ==
    IF \A i \in 1..Len(s) : s[i] < 128 THEN s
    ELSE IF \E i \in 1..Len(s) : Surrogate(s[i]) THEN EncodeError
    ELSE EncodeAll(s)

\* A continuation byte.
IsCont(x) == x \in 128..191

\* The strict decoder on the bytes of one character: the lead byte gives
\* the length, overlong forms, encoded surrogates and code points above
\* U+10FFFF are refused.
DecodeOne(b) ==
    IF Len(b) = 1 /\ b[1] < 128 THEN <<b[1]>>
    ELSE IF Len(b) = 2 /\ b[1] \in 194..223 /\ IsCont(b[2])
    THEN <<(b[1] - 192) * 64 + (b[2] - 128)>>
    ELSE IF /\ Len(b) = 3 /\ b[1] \in 224..239 /\ IsCont(b[2]) /\ IsCont(b[3])
            /\ b[1] = 224 => b[2] >= 160
            /\ b[1] = 237 => b[2] <= 159
    THEN <<(b[1] - 224) * 4096 + (b[2] - 128) * 64 + (b[3] - 128)>>
    ELSE IF /\ Len(b) = 4 /\ b[1] \in 240..244
            /\ IsCont(b[2]) /\ IsCont(b[3]) /\ IsCont(b[4])
            /\ b[1] = 240 => b[2] >= 144
            /\ b[1] = 244 => b[2] <= 143
    THEN <<(b[1] - 240) * 262144 + (b[2] - 128) * 4096 + (b[3] - 128) * 64 + (b[4] - 128)>>
    ELSE DecodeError

\* bytes.decode('utf-8'), strict: the code points, or DecodeError when the
\* bytes are not well-formed.  ASCII bytes are their own code points.  A
\* character starts at every byte that is not a continuation byte; longer
\* inputs are cut in two at such a byte and decoded by halves.
RECURSIVE Utf8Decode(_)
Utf8Decode(b) ==
    IF \A i \in 1..Len(b) : b[i] < 128 THEN b
    ELSE IF IsCont(b[1]) THEN DecodeError
    ELSE LET later == {i \in 2..Len(b) : ~IsCont(b[i])}
         IN IF later = {} THEN DecodeOne(b)
            ELSE LET after == {i \in later : i > Len(b) \div 2}
                     cut == IF after # {} THEN Min(after) ELSE Max(later)
                     left == Utf8Decode(SubSeq(b, 1, cut - 1))
                     right == Utf8Decode(SubSeq(b, cut, Len(b)))
                 IN IF left = DecodeError \/ right = DecodeError
                    THEN DecodeError ELSE left \o right

\* What C sees behind a c_char_p, and what a c_char array field or
\* string buffer's .value gives back: the bytes before the first NUL.
CStr(b) ==
    LET nul == {i \in 1..Len(b) : b[i] = 0}
    IN IF nul = {} THEN b ELSE SubSeq(b, 1, Min(nul) - 1)

\* A c_uint is kept as its 32-bit pattern: 0 .. 2^31-1 as themselves, and
\* 2^31 .. 2^32-1 as the negative numbers -2^31 .. -1.
Inc32(x) == IF x = INT_MAX THEN (-INT_MAX) - 1 ELSE x + 1
Dec32(x) == IF x = (-INT_MAX) - 1 THEN INT_MAX ELSE x - 1
\* a < b as unsigned numbers.
ULess(a, b) == IF (a >= 0) = (b >= 0) THEN a < b ELSE a >= 0

\* ------------------------------------------------------------------ inputs
\* Python-level keys: MAX_ENTRIES + 1 distinct one-letter keys "a", "b", ...
\* and the empty string.
LetterKey(n) == <<96 + n>>
KeyInputs == {LetterKey(n) : n \in 1..(MAX_ENTRIES + 1)} \cup {<<>>}
\* Python-level values: "x" and "y\0z" (an embedded NUL).
ValueInputs == {<<120>>, <<121, 0, 122>>}
\* Keys and values at the length limits ("é" is two bytes long).
\* "€" is three bytes long and U+D800 is a surrogate.
EdgeKeys ==
    {Rep(KEY_SIZE - 1, 97), Rep(KEY_SIZE, 97), Rep(KEY_SIZE - 2, 97) \o <<233>>,
     Rep(KEY_SIZE - 3, 97) \o <<8364>>, <<55296>>}
EdgeValues == {Rep(VALUE_SIZE - 1, 120), Rep(VALUE_SIZE, 120)}

\* ------------------------------------------------------------------- state
VARIABLES
    shm,          \* the name exists in the OS namespace
    named,        \* the segment the name was last given to
    kv_table,     \* per segment: slot -> [key, value, timestamp] (C strings)
    sem,          \* per segment: the embedded semaphore (1 free, 0 held)
    version,      \* per segment: c_uint
    entry_count,  \* per segment: c_uint
    now,          \* the wall clock read by the engine
    store_ptr,    \* wrapper: "None", "NULL" (a NULL pointer object) or "valid"
    at,           \* wrapper: the segment a valid store_ptr points to, else 0
    fd,           \* wrapper: descriptor, -1 when none
    maps,         \* process: how many mappings of a segment it holds
    pc,           \* process: where it is in its current call
    op,           \* process: the call in progress and its arguments
    loc,          \* process: locals of the call in progress
    whole,        \* history, per segment: the segment as the last whole mutation left it
    lastMut,      \* history: the last successful mutation
    muts,         \* history: how many mutations have succeeded
    scen,         \* history: 1 StoreFull at a full count, 2 then a delete, 3 then a new put
    rejected      \* history: the last call, when it returned before reaching the engine

vars == <<shm, named, kv_table, sem, version, entry_count, now, store_ptr, at, fd, maps,
          pc, op, loc, whole, lastMut, muts, scen, rejected>>
segment == <<shm, named, kv_table, sem, version, entry_count>>

EmptySlot == [key |-> <<>>, value |-> <<>>, timestamp |-> 0]
ZeroTable == [i \in Slots |-> EmptySlot]

\* ---------------------------------------------------------- table engine
\* A slot is free iff the first byte of its key is the terminator.
SlotFree(slot) == slot.key = <<>>

\* Index of the occupied slot holding key kb, 0 when there is none.
FindKey(t, kb) ==
    LET hit == {i \in Slots : ~SlotFree(t[i]) /\ t[i].key = kb}
    IN IF hit = {} THEN 0 ELSE Min(hit)

\* First free slot in index order, 0 when there is none.
FirstFree(t) ==
    LET free == {i \in Slots : SlotFree(t[i])}
    IN IF free = {} THEN 0 ELSE Min(free)

\* put: overwrite a matching occupied slot, else take the first free slot,
\* else fail StoreFull.
PlanSet(t, kb) ==
    IF FindKey(t, kb) # 0 THEN [plan |-> "overwrite", idx |-> FindKey(t, kb)]
    ELSE IF FirstFree(t) # 0 THEN [plan |-> "insert", idx |-> FirstFree(t)]
    ELSE [plan |-> "full", idx |-> 0]

\* get / delete: the matching occupied slot, else NotFound.
PlanFind(t, kb) ==
    IF FindKey(t, kb) # 0 THEN [plan |-> "found", idx |-> FindKey(t, kb)]
    ELSE [plan |-> "notfound", idx |-> 0]


\* ------------------------------------------------------------- the wrapper
\* A _check_store that only tests `is None`.
CheckStoreNoneOnly(sp) ==
    IF sp = "None" THEN [ok |-> FALSE, ptr |-> "None"] ELSE [ok |-> TRUE, ptr |-> sp]

\* _check_store: the result and the normalised store_ptr.
CheckStore(sp) ==
    IF sp = "None" THEN [ok |-> FALSE, ptr |-> "None"]
    ELSE IF sp = "NULL" THEN [ok |-> FALSE, ptr |-> "None"]
    ELSE [ok |-> TRUE, ptr |-> sp]

\* set's and get's length checks on the encoded bytes.
KeyTooLong(key_bytes) == Len(key_bytes) >= KEY_SIZE
ValueTooLong(value_bytes) == Len(value_bytes) >= VALUE_SIZE

\* ctypes.get_errno(): the library is loaded with ctypes.CDLL(lib_path), so
\* ctypes keeps no copy of the C errno and the private value stays 0.
CtypesGetErrno(c_errno) == 0

\* get_status's test `if pair.key:` on a c_char array field.
PairKeyTruthy(pair) == CStr(pair.key) # <<>>

\* pair.key.decode('utf-8') / pair.value.decode('utf-8') on a c_char array
\* field (DecodeError when decode raises).
FieldStr(field) == Utf8Decode(CStr(field))

\* One entry of get_status's list when the slot does not change between
\* the reads of its key, value and timestamp.
StatusEntry(pair) ==
    [key |-> FieldStr(pair.key), value |-> FieldStr(pair.value), timestamp |-> pair.timestamp]

\* The dict get_status returns.
StatusDict(v, n, entries) ==
    [version |-> v, entry_count |-> n, max_entries |-> MAX_ENTRIES, entries |-> entries]

\* What get_status returns when the segment does not change while it runs:
\* version, entry_count and the slots whose key is not empty, in index order.
RECURSIVE EntriesFrom(_, _)
EntriesFrom(t, i) ==
    IF i > MAX_ENTRIES THEN <<>>
    ELSE (IF PairKeyTruthy(t[i]) THEN <<StatusEntry(t[i])>> ELSE <<>>) \o EntriesFrom(t, i + 1)

Snapshot(c) == StatusDict(c.version, c.entry_count, EntriesFrom(c.table, 1))

Segment(t, v, n) == [table |-> t, version |-> v, entry_count |-> n]

NoOp == [name |-> "none", key |-> <<>>, value |-> <<>>]
NoLoc == [kb |-> <<>>, vb |-> <<>>, plan |-> "none", idx |-> 0, i |-> 0, entries |-> <<>>,
          key_str |-> <<>>, value_str |-> <<>>, version |-> 0]
NoMut == [op |-> "none", key |-> <<>>, value |-> <<>>, idx |-> 0, plan |-> "none",
          nBefore |-> 0, vBefore |-> 0]
NoScen == [stage |-> 0, idx |-> 0]
NoReject == [proc |-> 0, name |-> "none", sp |-> "None", key |-> <<>>, value |-> <<>>,
             ret |-> ""]

\* Memory no wrapper has created yet, or can reach any more.
NoTable == [s \in Segs |-> ZeroTable]
NoSem == [s \in Segs |-> 1]
NoCount == [s \in Segs |-> 0]
NoWhole == [s \in Segs |-> Segment(ZeroTable, 0, 0)]

\* Segment s is still reachable: the name was last given to it, or the
\* pointer of some wrapper maps it.
Mapped(s, sp, a) == \E q \in Procs : sp[q] = "valid" /\ a[q] = s
Kept(s, nm, sp, a) == s = nm \/ Mapped(s, sp, a)

\* The memory f of the segments once those nobody can reach are given back.
Sweep(f, zero, nm, sp, a) == [s \in Segs |-> IF Kept(s, nm, sp, a) THEN f[s] ELSE zero[s]]

\* The segment a create() of p gets: the one the name had last if no other
\* wrapper maps it, else one nobody else maps.
NewSegment(p) ==
    LET free == {s \in Segs : ~Mapped(s, [store_ptr EXCEPT ![p] = "None"], at)}
    IN IF named \in free THEN named ELSE Min(free)

\* --------------------------------------------------------------------- Init
\* Every wrapper freshly constructed (__init__), no segment yet.
Init ==
    /\ shm = FALSE
    /\ named = 1
    /\ kv_table = NoTable
    /\ sem = NoSem
    /\ version = NoCount
    /\ entry_count = NoCount
    /\ now = 0
    /\ store_ptr = [p \in Procs |-> "None"]
    /\ at = [p \in Procs |-> 0]
    /\ fd = [p \in Procs |-> -1]
    /\ maps = [p \in Procs |-> 0]
    /\ pc = [p \in Procs |-> "idle"]
    /\ op = [p \in Procs |-> NoOp]
    /\ loc = [p \in Procs |-> NoLoc]
    /\ whole = NoWhole
    /\ lastMut = NoMut
    /\ muts = 0
    /\ scen = NoScen
    /\ rejected = NoReject

\* ------------------------------------------------------ segment lifecycle
\* What shared_memory_kv_create hands back: NULL when the name exists.
EngCreate(exists) == IF exists THEN "NULL" ELSE "valid"
\* What shared_memory_kv_open hands back: NULL when the name does not exist.
EngOpen(exists) == IF exists THEN "valid" ELSE "NULL"

\* create() and open() return whether the pointer they stored is usable.
CreateReturn(exists) == CheckStore(EngCreate(exists)).ok
OpenReturn(exists) == CheckStore(EngOpen(exists)).ok

\* What shared_memory_kv_unlink hands back: 0 when it removed the name.
EngUnlink(exists) == IF exists THEN 0 ELSE -1
\* An unlink() that reads the engine's result the wrong way round.
UnlinkReturnInverted(exists) == EngUnlink(exists) # 0

\* unlink() returns whether the engine returned 0.
UnlinkReturn(exists) == EngUnlink(exists) = 0

\* A create() over an engine that initialises the segment whether or not
\* the name exists.
CreateAnyway(p) ==
    LET new == IF shm THEN named ELSE NewSegment(p)
    IN
    /\ maps[p] < MaxMaps
    /\ store_ptr' = [store_ptr EXCEPT ![p] = "valid"]
    /\ at' = [at EXCEPT ![p] = new]
    /\ fd' = [fd EXCEPT ![p] = 3]
    /\ maps' = [maps EXCEPT ![p] = maps[p] + 1]
    /\ shm' = TRUE
    /\ named' = new
    /\ kv_table' = Sweep([kv_table EXCEPT ![new] = ZeroTable], NoTable, new, store_ptr', at')
    /\ sem' = Sweep([sem EXCEPT ![new] = 1], NoSem, new, store_ptr', at')
    /\ version' = Sweep([version EXCEPT ![new] = 1], NoCount, new, store_ptr', at')
    /\ entry_count' = Sweep([entry_count EXCEPT ![new] = 0], NoCount, new, store_ptr', at')
    /\ whole' = Sweep([whole EXCEPT ![new] = Segment(ZeroTable, 1, 0)], NoWhole, new,
                      store_ptr', at')
    /\ lastMut' = NoMut
    /\ muts' = muts
    /\ scen' = NoScen
    /\ rejected' = NoReject
    /\ UNCHANGED <<now, op, loc>>

\* The body of create(): the engine makes and initialises a segment under
\* the name unless the name exists; the wrapper keeps the pointer and checks
\* it.  A failed call leaves the descriptor as it was or sets it to -1,
\* whichever the engine does.
CreateBody(p) ==
    LET new == NewSegment(p)
    IN
    /\ shm \/ maps[p] < MaxMaps
    /\ store_ptr' = [store_ptr EXCEPT ![p] = CheckStore(EngCreate(shm)).ptr]
    /\ at' = [at EXCEPT ![p] = IF shm THEN 0 ELSE new]
    /\ IF shm
       THEN \E f \in {fd[p], -1} : fd' = [fd EXCEPT ![p] = f]
       ELSE fd' = [fd EXCEPT ![p] = 3]
    /\ maps' = [maps EXCEPT ![p] = IF shm THEN maps[p] ELSE maps[p] + 1]
    /\ IF shm
       THEN /\ kv_table' = Sweep(kv_table, NoTable, named, store_ptr', at')
            /\ sem' = Sweep(sem, NoSem, named, store_ptr', at')
            /\ version' = Sweep(version, NoCount, named, store_ptr', at')
            /\ entry_count' = Sweep(entry_count, NoCount, named, store_ptr', at')
            /\ whole' = Sweep(whole, NoWhole, named, store_ptr', at')
            /\ UNCHANGED <<shm, named, lastMut, muts, scen>>
       ELSE /\ shm' = TRUE
            /\ named' = new
            /\ kv_table' = Sweep([kv_table EXCEPT ![new] = ZeroTable], NoTable, new,
                                 store_ptr', at')
            /\ sem' = Sweep([sem EXCEPT ![new] = 1], NoSem, new, store_ptr', at')
            /\ version' = Sweep([version EXCEPT ![new] = 1], NoCount, new, store_ptr', at')
            /\ entry_count' = Sweep([entry_count EXCEPT ![new] = 0], NoCount, new,
                                    store_ptr', at')
            /\ whole' = Sweep([whole EXCEPT ![new] = Segment(ZeroTable, 1, 0)], NoWhole, new,
                              store_ptr', at')
            /\ lastMut' = NoMut
            /\ muts' = muts
            /\ scen' = NoScen
    /\ rejected' = NoReject
    /\ UNCHANGED <<now, op, loc>>

\* The body of open(): the engine attaches to the segment the name has, as
\* it is.
OpenBody(p) ==
    /\ shm => maps[p] < MaxMaps
    /\ store_ptr' = [store_ptr EXCEPT ![p] = CheckStore(EngOpen(shm)).ptr]
    /\ at' = [at EXCEPT ![p] = IF shm THEN named ELSE 0]
    /\ IF shm
       THEN fd' = [fd EXCEPT ![p] = 3]
       ELSE \E f \in {fd[p], -1} : fd' = [fd EXCEPT ![p] = f]
    /\ maps' = [maps EXCEPT ![p] = IF shm THEN maps[p] + 1 ELSE maps[p]]
    /\ kv_table' = Sweep(kv_table, NoTable, named, store_ptr', at')
    /\ sem' = Sweep(sem, NoSem, named, store_ptr', at')
    /\ version' = Sweep(version, NoCount, named, store_ptr', at')
    /\ entry_count' = Sweep(entry_count, NoCount, named, store_ptr', at')
    /\ whole' = Sweep(whole, NoWhole, named, store_ptr', at')
    /\ rejected' = NoReject
    /\ UNCHANGED <<shm, named, now, op, loc, lastMut, muts, scen>>

\* create() and open() called between two calls of the process.
Create(p) == pc[p] = "idle" /\ CreateBody(p) /\ UNCHANGED pc

Open(p) == pc[p] = "idle" /\ OpenBody(p) /\ UNCHANGED pc

\* The server's startup (lifespan): open; when that fails, create; when
\* that fails too, the process exits (RuntimeError, sys.exit(1)); after
\* either has attached, the final check.
LifespanOpen(p) ==
    /\ pc[p] = "startup"
    /\ OpenBody(p)
    /\ pc' = [pc EXCEPT ![p] = IF OpenReturn(shm) THEN "startup_check" ELSE "startup_create"]

LifespanCreate(p) ==
    /\ pc[p] = "startup_create"
    /\ CreateBody(p)
    /\ pc' = [pc EXCEPT ![p] = IF CreateReturn(shm) THEN "startup_check" ELSE "exited"]

\* The final check of the startup: kv_store.get_status() up to its loop.
\* The server goes on to serve whether the call returns a dict or None; an
\* exception that leaves the call ends the process (AfterRaise).
LifespanCheck(p) ==
    /\ pc[p] = "startup_check"
    /\ store_ptr' = [store_ptr EXCEPT ![p] = CheckStore(store_ptr[p]).ptr]
    /\ at' = at
    /\ IF ~CheckStore(store_ptr[p]).ok
       THEN /\ rejected' = [proc |-> p, sp |-> store_ptr[p], name |-> "get_status", key |-> <<>>,
                            value |-> <<>>, ret |-> "None"]
            /\ pc' = [pc EXCEPT ![p] = "idle"]
            /\ UNCHANGED <<op, loc>>
       ELSE /\ rejected' = NoReject
            /\ pc' = [pc EXCEPT ![p] = "st_loop"]
            /\ op' = [op EXCEPT ![p] = [NoOp EXCEPT !.name = "final_check"]]
            /\ loc' = [loc EXCEPT ![p] = [NoLoc EXCEPT !.i = 1]]
    /\ UNCHANGED <<segment, now, fd, maps, whole, lastMut, muts, scen>>

\* A destroy() that calls the engine's destroy without _check_store.
DestroyUnchecked(p) ==
    /\ pc[p] = "idle"
    /\ store_ptr' = [store_ptr EXCEPT ![p] = "None"]
    /\ at' = [at EXCEPT ![p] = 0]
    /\ fd' = [fd EXCEPT ![p] = -1]
    /\ maps' = [maps EXCEPT ![p] = maps[p] - 1]
    /\ kv_table' = Sweep(kv_table, NoTable, named, store_ptr', at')
    /\ sem' = Sweep(sem, NoSem, named, store_ptr', at')
    /\ version' = Sweep(version, NoCount, named, store_ptr', at')
    /\ entry_count' = Sweep(entry_count, NoCount, named, store_ptr', at')
    /\ whole' = Sweep(whole, NoWhole, named, store_ptr', at')
    /\ rejected' = NoReject
    /\ UNCHANGED <<shm, named, now, pc, op, loc, lastMut, muts, scen>>

\* The body of destroy(): unmap and forget, when there is something to
\* unmap.
DestroyBody(p) ==
    /\ store_ptr' = [store_ptr EXCEPT ![p] =
                        IF CheckStore(store_ptr[p]).ok THEN "None"
                        ELSE CheckStore(store_ptr[p]).ptr]
    /\ fd' = [fd EXCEPT ![p] = IF CheckStore(store_ptr[p]).ok THEN -1 ELSE fd[p]]
    /\ maps' = [maps EXCEPT ![p] =
                   IF CheckStore(store_ptr[p]).ok THEN maps[p] - 1 ELSE maps[p]]
    /\ at' = [at EXCEPT ![p] = 0]
    /\ kv_table' = Sweep(kv_table, NoTable, named, store_ptr', at')
    /\ sem' = Sweep(sem, NoSem, named, store_ptr', at')
    /\ version' = Sweep(version, NoCount, named, store_ptr', at')
    /\ entry_count' = Sweep(entry_count, NoCount, named, store_ptr', at')
    /\ whole' = Sweep(whole, NoWhole, named, store_ptr', at')
    /\ rejected' = NoReject
    /\ UNCHANGED <<shm, named, now, op, loc, lastMut, muts, scen>>

\* destroy() called between two calls of the process.
Destroy(p) == pc[p] = "idle" /\ DestroyBody(p) /\ UNCHANGED pc

\* The server's shutdown (lifespan, after the yield): kv_store.destroy(),
\* and the process ends.  The handlers are coroutines that call the wrapper
\* without awaiting, so the shutdown runs between two requests.
LifespanShutdown(p) ==
    /\ pc[p] = "idle"
    /\ DestroyBody(p)
    /\ pc' = [pc EXCEPT ![p] = "stopped"]

\* unlink(): the engine removes the name; mappings stay as they are.
Unlink(p) ==
    /\ pc[p] = "idle"
    /\ shm' = IF EngUnlink(shm) = 0 THEN FALSE ELSE shm
    /\ rejected' = NoReject
    /\ UNCHANGED <<named, kv_table, sem, version, entry_count, now, store_ptr, at, fd,
                   maps, pc, op, loc, whole, lastMut, muts, scen>>

\* test_fix.py: a NULL pointer object assigned to a wrapper that holds
\* no store.
SetNull(p) ==
    /\ pc[p] = "idle"
    /\ store_ptr[p] = "None"
    /\ store_ptr' = [store_ptr EXCEPT ![p] = "NULL"]
    /\ at' = at
    /\ rejected' = NoReject
    /\ UNCHANGED <<segment, now, fd, maps, pc, op, loc, whole, lastMut, muts, scen>>

\* The engine reads time(NULL) when it stamps a slot.
Tick ==
    /\ now < MaxClock
    /\ now' = now + 1
    /\ UNCHANGED <<segment, store_ptr, at, fd, maps, pc, op, loc, whole,
                   lastMut, muts, scen, rejected>>

\* ------------------------------------------------------------- invocation
\* Calls that may still change the table; at most MaxMutations succeed.
Mutating(q) == pc[q] # "idle" /\ op[q].name \in {"set", "delete"}
CanMutate == muts + Cardinality({q \in Procs : Mutating(q)}) < MaxMutations

\* What set() returns before it reaches the engine ("UnicodeEncodeError"
\* when encode raises instead), "" when it goes on.
SetEarly(sp, key, value) ==
    IF ~CheckStore(sp).ok THEN "Store not initialized"
    ELSE IF Utf8Encode(key) = EncodeError \/ Utf8Encode(value) = EncodeError
    THEN "UnicodeEncodeError"
    ELSE IF KeyTooLong(Utf8Encode(key)) THEN "Key too long"
    ELSE IF ValueTooLong(Utf8Encode(value)) THEN "Value too long"
    ELSE ""

\* What get() returns before it reaches the engine ("UnicodeEncodeError"
\* when encode raises instead), "" when it goes on.
GetEarly(sp, key) ==
    IF ~CheckStore(sp).ok THEN "Store not initialized"
    ELSE IF Utf8Encode(key) = EncodeError THEN "UnicodeEncodeError"
    ELSE IF KeyTooLong(Utf8Encode(key)) THEN "Key too long"
    ELSE ""

\* set(key, value) up to the call into the engine.
InvokeSet(p, key, value) ==
    /\ pc[p] = "idle"
    /\ store_ptr' = [store_ptr EXCEPT ![p] = CheckStore(store_ptr[p]).ptr]
    /\ at' = at
    /\ IF SetEarly(store_ptr[p], key, value) # ""
       THEN /\ rejected' = [proc |-> p, sp |-> store_ptr[p], name |-> "set", key |-> key, value |-> value,
                            ret |-> SetEarly(store_ptr[p], key, value)]
            /\ UNCHANGED <<pc, op, loc>>
       ELSE /\ CanMutate
            /\ rejected' = NoReject
            /\ pc' = [pc EXCEPT ![p] = "sem_wait"]
            /\ op' = [op EXCEPT ![p] = [name |-> "set", key |-> key, value |-> value]]
            /\ loc' = [loc EXCEPT ![p] =
                          [NoLoc EXCEPT !.kb = CStr(Utf8Encode(key)),
                                        !.vb = CStr(Utf8Encode(value))]]
    /\ UNCHANGED <<segment, now, fd, maps, whole, lastMut, muts, scen>>

\* get(key) up to the call into the engine.
InvokeGet(p, key) ==
    /\ pc[p] = "idle"
    /\ store_ptr' = [store_ptr EXCEPT ![p] = CheckStore(store_ptr[p]).ptr]
    /\ at' = at
    /\ IF GetEarly(store_ptr[p], key) # ""
       THEN /\ rejected' = [proc |-> p, sp |-> store_ptr[p], name |-> "get", key |-> key, value |-> <<>>,
                            ret |-> GetEarly(store_ptr[p], key)]
            /\ UNCHANGED <<pc, op, loc>>
       ELSE /\ rejected' = NoReject
            /\ pc' = [pc EXCEPT ![p] = "sem_wait"]
            /\ op' = [op EXCEPT ![p] = [name |-> "get", key |-> key, value |-> <<>>]]
            /\ loc' = [loc EXCEPT ![p] = [NoLoc EXCEPT !.kb = CStr(Utf8Encode(key))]]
    /\ UNCHANGED <<segment, now, fd, maps, whole, lastMut, muts, scen>>

\* shared_memory_kv_delete(store_ptr, key_bytes), called on a valid pointer
\* (the wrapper declares the function and has no method around it).
InvokeDelete(p, key) ==
    /\ pc[p] = "idle"
    /\ CheckStore(store_ptr[p]).ok
    /\ Utf8Encode(key) # EncodeError
    /\ CanMutate
    /\ pc' = [pc EXCEPT ![p] = "sem_wait"]
    /\ op' = [op EXCEPT ![p] = [name |-> "delete", key |-> key, value |-> <<>>]]
    /\ loc' = [loc EXCEPT ![p] = [NoLoc EXCEPT !.kb = CStr(Utf8Encode(key))]]
    /\ rejected' = NoReject
    /\ UNCHANGED <<segment, now, store_ptr, at, fd, maps, whole, lastMut, muts, scen>>

\* ------------------------------------------------- engine, under the Guard
\* sem_wait, then the linear scan that decides what the call will do; get
\* copies the value it found into the caller's buffer.
SemWait(p) ==
    /\ pc[p] = "sem_wait"
    /\ sem[at[p]] = 1
    /\ sem' = [sem EXCEPT ![at[p]] = 0]
    /\ LET pl == IF op[p].name = "set" THEN PlanSet(kv_table[at[p]], loc[p].kb)
                 ELSE PlanFind(kv_table[at[p]], loc[p].kb)
           nxt == IF pl.plan = "insert" THEN "write_key"
                  ELSE IF pl.plan = "overwrite" THEN "write_value"
                  ELSE IF pl.plan = "found" /\ op[p].name = "delete" THEN "clear"
                  ELSE "sem_post"
           buf == IF op[p].name = "get" /\ pl.plan = "found"
                  THEN kv_table[at[p]][pl.idx].value ELSE loc[p].vb
       IN /\ pc' = [pc EXCEPT ![p] = nxt]
          /\ loc' = [loc EXCEPT ![p].plan = pl.plan, ![p].idx = pl.idx, ![p].vb = buf]
    /\ UNCHANGED <<shm, named, kv_table, version, entry_count, now, store_ptr, at, fd, maps, op,
                   whole, lastMut, muts, scen, rejected>>

\* put into a free slot: the key first.
WriteKey(p) ==
    /\ pc[p] = "write_key"
    /\ kv_table' = [kv_table EXCEPT ![at[p]][loc[p].idx].key = loc[p].kb]
    /\ pc' = [pc EXCEPT ![p] = "write_value"]
    /\ UNCHANGED <<shm, named, sem, version, entry_count, now, store_ptr, at, fd, maps, op, loc,
                   whole, lastMut, muts, scen, rejected>>

\* put: the value and the timestamp of the chosen slot.
WriteValue(p) ==
    /\ pc[p] = "write_value"
    /\ kv_table' = [kv_table EXCEPT ![at[p]][loc[p].idx].value = loc[p].vb,
                                    ![at[p]][loc[p].idx].timestamp = now]
    /\ pc' = [pc EXCEPT ![p] = "sem_post"]
    /\ UNCHANGED <<shm, named, sem, version, entry_count, now, store_ptr, at, fd, maps, op, loc,
                   whole, lastMut, muts, scen, rejected>>

\* delete: zero the slot's key, value and timestamp.
ClearSlot(p) ==
    /\ pc[p] = "clear"
    /\ kv_table' = [kv_table EXCEPT ![at[p]][loc[p].idx] = EmptySlot]
    /\ pc' = [pc EXCEPT ![p] = "sem_post"]
    /\ UNCHANGED <<shm, named, sem, version, entry_count, now, store_ptr, at, fd, maps, op, loc,
                   whole, lastMut, muts, scen, rejected>>

\* The engine's return value and errno for a call and what its scan found.
EngResult(name, plan) ==
    IF name = "set" /\ plan = "full"
    THEN [result |-> -1, c_errno |-> ENOSPC, eng |-> "StoreFull"]
    ELSE IF plan = "notfound"
    THEN [result |-> -1, c_errno |-> ENOENT, eng |-> "NotFound"]
    ELSE [result |-> 0, c_errno |-> 0, eng |-> "OK"]

\* A set() that tests the engine's result the wrong way round.
SetResultInverted(result, c_errno) ==
    IF result = 0
    THEN [ok |-> FALSE, err |-> "Error setting key: errno=", errno |-> CtypesGetErrno(c_errno)]
    ELSE [ok |-> TRUE, err |-> "", errno |-> 0]

\* A set() that reports success whatever the engine returned.
SetResultIgnored(result, c_errno) == [ok |-> TRUE, err |-> "", errno |-> 0]

\* set(): from the engine's result to the returned pair.
SetResult(result, c_errno) ==
    IF result = -1
    THEN [ok |-> FALSE, err |-> "Error setting key: errno=", errno |-> CtypesGetErrno(c_errno)]
    ELSE [ok |-> TRUE, err |-> "", errno |-> 0]

\* A get() that never looks at the engine's result and decodes the buffer.
GetResultUnchecked(result, c_errno, value_buffer) ==
    [isNone |-> FALSE, value |-> Utf8Decode(CStr(value_buffer)), err |-> "", errno |-> 0,
     raises |-> Utf8Decode(CStr(value_buffer)) = DecodeError]

\* get(): from the engine's result and the value buffer to the returned pair;
\* `raises` when decode raises UnicodeDecodeError and nothing is returned.
GetResult(result, c_errno, value_buffer) ==
    IF result = -1
    THEN IF CtypesGetErrno(c_errno) = ENOENT
         THEN [isNone |-> TRUE, value |-> <<>>, err |-> "Key not found", errno |-> ENOENT,
               raises |-> FALSE]
         ELSE [isNone |-> TRUE, value |-> <<>>, err |-> "Error getting key: errno=",
               errno |-> CtypesGetErrno(c_errno), raises |-> FALSE]
    ELSE IF Utf8Decode(CStr(value_buffer)) = DecodeError
    THEN [isNone |-> TRUE, value |-> <<>>, err |-> "", errno |-> 0, raises |-> TRUE]
    ELSE [isNone |-> FALSE, value |-> Utf8Decode(CStr(value_buffer)), err |-> "", errno |-> 0,
          raises |-> FALSE]

\* The counters after a call that did `plan`.
CountAfter(name, plan, n) ==
    IF plan = "insert" THEN Inc32(n)
    ELSE IF name = "delete" /\ plan = "found" THEN Dec32(n)
    ELSE n

Mutated(name, plan) ==
    plan \in {"insert", "overwrite"} \/ (name = "delete" /\ plan = "found")

VersionAfter(name, plan, v) == IF Mutated(name, plan) THEN Inc32(v) ELSE v

\* A process about to return from the engine: what the engine reports and
\* what set() / get() make of it.
Returning(p) == pc[p] = "sem_post"
EngReturn(p) == EngResult(op[p].name, loc[p].plan)
SetReturn(p) == SetResult(EngReturn(p).result, EngReturn(p).c_errno)
GetReturn(p) == GetResult(EngReturn(p).result, EngReturn(p).c_errno,
                          IF loc[p].plan = "found" THEN loc[p].vb ELSE <<>>)

\* ------------------------------------------------------ the service layer
\* The text of an error message: the f-strings of set() and get() put a
\* decimal number after (or inside) the fixed words.
ErrorText(err, n) ==
    IF err \in {"Key too long", "Value too long"}
    THEN err \o " (max " \o ToString(n) \o " bytes)"
    ELSE IF err \in {"Error setting key: errno=", "Error getting key: errno="}
    THEN err \o ToString(n)
    ELSE err

\* The error text of a set() or get() that returned before the engine.
EarlyText(ret) ==
    IF ret = "Key too long" THEN ErrorText(ret, KEY_SIZE - 1)
    ELSE IF ret = "Value too long" THEN ErrorText(ret, VALUE_SIZE - 1)
    ELSE ret

\* str.lower() on the ASCII letters of the messages.
LowerChar(c) ==
    LET upper == "ABCDEFGHIJKLMNOPQRSTUVWXYZ"
        lower == "abcdefghijklmnopqrstuvwxyz"
        pos == {i \in 1..Len(upper) : SubSeq(upper, i, i) = c}
    IN IF pos = {} THEN c ELSE SubSeq(lower, Min(pos), Min(pos))

RECURSIVE Lower(_)
Lower(s) ==
    IF Len(s) = 0 THEN ""
    ELSE LowerChar(SubSeq(s, 1, 1)) \o Lower(SubSeq(s, 2, Len(s)))

\* Python's `needle in text` on strings.
Contains(needle, text) ==
    \E i \in 1..(Len(text) - Len(needle) + 1) :
        SubSeq(text, i, i + Len(needle) - 1) = needle

\* get_value: from the error get() returned ("" for None) to the HTTP status.
GetStatusCode(error) ==
    IF error # ""
    THEN IF Contains("not found", Lower(error)) THEN 404 ELSE 500
    ELSE 200

\* set_value: from the pair set() returned to the HTTP status.
SetStatusCode(success, error) ==
    IF ~success
    THEN IF Contains("too long", Lower(error)) THEN 413
         ELSE IF Contains("full", Lower(error)) \/ Contains("ENOSPC", error) THEN 507
         ELSE 400
    ELSE 200

\* The status GET /get/{key} and POST /set answer for the call p returns from.
GetError(p) == ErrorText(GetReturn(p).err, GetReturn(p).errno)
SetError(p) == ErrorText(SetReturn(p).err, SetReturn(p).errno)
\* get_value catches nothing: when get() raises, the exception leaves the
\* handler and the handler answers no status of its own.
Unanswered == 0
GetAnswer(p) == IF GetReturn(p).raises THEN Unanswered ELSE GetStatusCode(GetError(p))
SetAnswer(p) == SetStatusCode(SetReturn(p).ok, SetError(p))

InStatus(q) == pc[q] \in {"st_loop", "st_key", "st_value", "st_ts", "st_version", "st_ret"}

\* The counters, sem_post, and the return to the caller.  The history
\* follows the segment the name was last given to.
SemPost(p) ==
    LET name == op[p].name
        plan == loc[p].plan
        here == at[p]
        after == Segment(kv_table[here], VersionAfter(name, plan, version[here]),
                         CountAfter(name, plan, entry_count[here]))
        told == here = named /\ Mutated(name, plan)
    IN
    /\ pc[p] = "sem_post"
    /\ version' = [version EXCEPT ![here] = after.version]
    /\ entry_count' = [entry_count EXCEPT ![here] = after.entry_count]
    /\ sem' = [sem EXCEPT ![here] = 1]
    /\ pc' = [pc EXCEPT ![p] = "idle"]
    /\ op' = [op EXCEPT ![p] = NoOp]
    /\ loc' = [loc EXCEPT ![p] = NoLoc]
    /\ whole' = [whole EXCEPT ![here] = IF Mutated(name, plan) THEN after ELSE @]
    /\ lastMut' = IF told
                  THEN [op |-> name, key |-> op[p].key, value |-> op[p].value,
                        idx |-> loc[p].idx, plan |-> plan,
                        nBefore |-> entry_count[here], vBefore |-> version[here]]
                  ELSE lastMut
    /\ muts' = IF Mutated(name, plan) THEN muts + 1 ELSE muts
    /\ scen' = IF here # named THEN scen
               ELSE IF name = "set" /\ plan = "full" /\ entry_count[here] = MAX_ENTRIES
               THEN [stage |-> 1, idx |-> 0]
               ELSE IF name = "delete" /\ plan = "found" /\ scen.stage = 1
               THEN [stage |-> 2, idx |-> loc[p].idx]
               ELSE IF plan = "insert" /\ scen.stage = 2
               THEN [stage |-> 3, idx |-> scen.idx]
               ELSE IF Mutated(name, plan) THEN NoScen
               ELSE scen
    /\ UNCHANGED <<shm, named, kv_table, now, store_ptr, at, fd, maps, rejected>>

\* ----------------------------------------------- get_status, no Guard taken
\* A put or delete that has written part of what it writes.
MidWrite(q) ==
    \/ pc[q] = "write_value" /\ loc[q].plan = "insert"
    \/ pc[q] = "sem_post" /\ Mutated(op[q].name, loc[q].plan)

\* get_status() up to the loop over the table.
InvokeStatus(p) ==
    /\ pc[p] = "idle"
    /\ store_ptr' = [store_ptr EXCEPT ![p] = CheckStore(store_ptr[p]).ptr]
    /\ at' = at
    /\ IF ~CheckStore(store_ptr[p]).ok
       THEN /\ rejected' = [proc |-> p, sp |-> store_ptr[p], name |-> "get_status", key |-> <<>>,
                            value |-> <<>>, ret |-> "None"]
            /\ UNCHANGED <<pc, op, loc>>
       ELSE /\ rejected' = NoReject
            /\ pc' = [pc EXCEPT ![p] = "st_loop"]
            /\ op' = [op EXCEPT ![p] = [NoOp EXCEPT !.name = "get_status"]]
            /\ loc' = [loc EXCEPT ![p] = [NoLoc EXCEPT !.i = 1]]
    /\ UNCHANGED <<segment, now, fd, maps, whole, lastMut, muts, scen>>

\* The end of one turn of the loop: the next slot, or the dict.
NextTurn(i) == IF i = MAX_ENTRIES THEN "st_version" ELSE "st_loop"

\* A get_status whose loop starts over at the end of the table.
StatusReadAgain(p) ==
    LET pair == kv_table[at[p]][loc[p].i]
    IN
    /\ pc[p] = "st_loop"
    /\ IF PairKeyTruthy(pair)
       THEN /\ pc' = [pc EXCEPT ![p] = "st_key"]
            /\ loc' = loc
       ELSE /\ pc' = pc
            /\ loc' = [loc EXCEPT ![p].i = IF loc[p].i = MAX_ENTRIES THEN 1 ELSE loc[p].i + 1,
                                  ![p].entries = IF loc[p].i = MAX_ENTRIES THEN <<>>
                                                 ELSE loc[p].entries]
    /\ UNCHANGED <<segment, now, store_ptr, at, fd, maps, op, whole, lastMut, muts, scen, rejected>>

\* One turn of `for i in range(MAX_ENTRIES)`, up to the test `if pair.key:`.
\* pair is a view of slot i of the mapping, not a copy: every later use of
\* pair.key, pair.value and pair.timestamp reads the mapping again.
StatusRead(p) ==
    LET pair == kv_table[at[p]][loc[p].i]
    IN
    /\ pc[p] = "st_loop"
    /\ IF PairKeyTruthy(pair)
       THEN /\ pc' = [pc EXCEPT ![p] = "st_key"]
            /\ loc' = loc
       ELSE /\ pc' = [pc EXCEPT ![p] = NextTurn(loc[p].i)]
            /\ loc' = [loc EXCEPT ![p].i = loc[p].i + 1]
    /\ UNCHANGED <<segment, now, store_ptr, at, fd, maps, op, whole, lastMut, muts, scen, rejected>>

\* Where an exception that leaves get_status takes the process: the except
\* clause around the server's startup ends it (sys.exit(1)); any other
\* caller is between calls again.
AfterRaise(p) == IF op[p].name = "final_check" THEN "exited" ELSE "idle"

\* key_str = pair.key.decode('utf-8'); the call ends there when decode raises.
StatusKey(p) ==
    LET key_str == FieldStr(kv_table[at[p]][loc[p].i].key)
    IN
    /\ pc[p] = "st_key"
    /\ IF key_str = DecodeError
       THEN /\ pc' = [pc EXCEPT ![p] = AfterRaise(p)]
            /\ op' = [op EXCEPT ![p] = NoOp]
            /\ loc' = [loc EXCEPT ![p] = NoLoc]
       ELSE /\ pc' = [pc EXCEPT ![p] = "st_value"]
            /\ op' = op
            /\ loc' = [loc EXCEPT ![p].key_str = key_str]
    /\ UNCHANGED <<segment, now, store_ptr, at, fd, maps, whole, lastMut, muts, scen, rejected>>

\* value_str = pair.value.decode('utf-8'); the call ends there when decode raises.
StatusValue(p) ==
    LET value_str == FieldStr(kv_table[at[p]][loc[p].i].value)
    IN
    /\ pc[p] = "st_value"
    /\ IF value_str = DecodeError
       THEN /\ pc' = [pc EXCEPT ![p] = AfterRaise(p)]
            /\ op' = [op EXCEPT ![p] = NoOp]
            /\ loc' = [loc EXCEPT ![p] = NoLoc]
       ELSE /\ pc' = [pc EXCEPT ![p] = "st_ts"]
            /\ op' = op
            /\ loc' = [loc EXCEPT ![p].value_str = value_str]
    /\ UNCHANGED <<segment, now, store_ptr, at, fd, maps, whole, lastMut, muts, scen, rejected>>

\* entries.append({... "timestamp": pair.timestamp}), and the next turn.
StatusStamp(p) ==
    LET entry == [key |-> loc[p].key_str, value |-> loc[p].value_str,
                  timestamp |-> kv_table[at[p]][loc[p].i].timestamp]
    IN
    /\ pc[p] = "st_ts"
    /\ pc' = [pc EXCEPT ![p] = NextTurn(loc[p].i)]
    /\ loc' = [loc EXCEPT ![p].entries = Append(loc[p].entries, entry),
                          ![p].i = loc[p].i + 1,
                          ![p].key_str = <<>>,
                          ![p].value_str = <<>>]
    /\ UNCHANGED <<segment, now, store_ptr, at, fd, maps, op, whole, lastMut, muts, scen, rejected>>

\* "version": store.version, the first read of the returned dict.
StatusVersion(p) ==
    /\ pc[p] = "st_version"
    /\ pc' = [pc EXCEPT ![p] = "st_ret"]
    /\ loc' = [loc EXCEPT ![p].version = version[at[p]]]
    /\ UNCHANGED <<segment, now, store_ptr, at, fd, maps, op, whole, lastMut, muts, scen, rejected>>

\* A process about to return from get_status: the dict it returns, built
\* from the version it read and store.entry_count as the mapping shows it now.
StatusReturning(p) == pc[p] = "st_ret"
StatusResult(p) == StatusDict(loc[p].version, entry_count[at[p]], loc[p].entries)

\* "entry_count": store.entry_count, and the return.
StatusReturn(p) ==
    /\ pc[p] = "st_ret"
    /\ pc' = [pc EXCEPT ![p] = "idle"]
    /\ op' = [op EXCEPT ![p] = NoOp]
    /\ loc' = [loc EXCEPT ![p] = NoLoc]
    /\ UNCHANGED <<segment, now, store_ptr, at, fd, maps, whole, lastMut, muts, scen, rejected>>

\* ------------------------------------------------------------ specification
\* Each process attaches its wrapper once (create, or open) and then calls it.
Attach(p) ==
    \/ store_ptr[p] = "None" /\ Create(p)
    \/ store_ptr[p] = "None" /\ Open(p)

Call(p) ==
    \/ \E key \in KeyInputs : \E value \in ValueInputs : InvokeSet(p, key, value)
    \/ \E key \in KeyInputs : InvokeGet(p, key)
    \/ \E key \in KeyInputs : InvokeDelete(p, key)
    \/ InvokeStatus(p)

\* A process calls set, get and get_status of its attached wrapper, and the
\* engine's delete through the wrapper's library handle.
Serve(p, values) ==
    \/ \E key \in KeyInputs : \E value \in values :
          CheckStore(store_ptr[p]).ok /\ InvokeSet(p, key, value)
    \/ \E key \in KeyInputs : CheckStore(store_ptr[p]).ok /\ InvokeGet(p, key)
    \/ \E key \in KeyInputs : InvokeDelete(p, key)
    \/ CheckStore(store_ptr[p]).ok /\ InvokeStatus(p)

\* The steps of get_status.
StatusStep(p) ==
    \/ StatusRead(p)
    \/ StatusKey(p)
    \/ StatusValue(p)
    \/ StatusStamp(p)
    \/ StatusVersion(p)
    \/ StatusReturn(p)

Step(p) ==
    \/ SemWait(p)
    \/ WriteKey(p)
    \/ WriteValue(p)
    \/ ClearSlot(p)
    \/ SemPost(p)
    \/ StatusStep(p)

\* Processes calling concurrently with one value, all within one tick of
\* the clock.
Next == \E p \in Procs : Attach(p) \/ Serve(p, {<<120>>}) \/ Step(p)

Spec == Init /\ [][Next]_vars

\* One process calling while the clock advances.
NextClock == Tick \/ Attach(1) \/ Serve(1, ValueInputs) \/ Step(1)

SpecClock == Init /\ [][NextClock]_vars

\* Process 1 puts and deletes one key while the clock advances and
\* process 2 asks for the status.
NextTorn ==
    \/ Tick
    \/ \E p \in Procs : Attach(p) \/ Step(p)
    \/ \E value \in ValueInputs : InvokeSet(1, LetterKey(1), value)
    \/ InvokeDelete(1, LetterKey(1))
    \/ CheckStore(store_ptr[2]).ok /\ InvokeStatus(2)

SpecTorn == Init /\ [][NextTorn]_vars

\* A segment that has been in use for a long time: an empty table whose
\* version is one or two mutations short of the largest c_uint, with
\* process 1 attached to it.
InitWrap ==
    /\ shm = TRUE
    /\ named = 1
    /\ kv_table = NoTable
    /\ sem = NoSem
    /\ \E v \in {Dec32(0), Dec32(Dec32(0))} : version = [NoCount EXCEPT ![1] = v]
    /\ entry_count = NoCount
    /\ now = 0
    /\ store_ptr = [p \in Procs |-> IF p = 1 THEN "valid" ELSE "None"]
    /\ at = [p \in Procs |-> IF p = 1 THEN 1 ELSE 0]
    /\ fd = [p \in Procs |-> IF p = 1 THEN 3 ELSE -1]
    /\ maps = [p \in Procs |-> IF p = 1 THEN 1 ELSE 0]
    /\ pc = [p \in Procs |-> "idle"]
    /\ op = [p \in Procs |-> NoOp]
    /\ loc = [p \in Procs |-> NoLoc]
    /\ whole = [s \in Segs |-> Segment(kv_table[s], version[s], entry_count[s])]
    /\ lastMut = NoMut
    /\ muts = 0
    /\ scen = NoScen
    /\ rejected = NoReject

NextWrap == Serve(1, ValueInputs) \/ Step(1)

SpecWrap == InitWrap /\ [][NextWrap]_vars

\* One process calling with keys and values at the length limits.
CallEdge(p) ==
    \/ \E key \in EdgeKeys \cup {LetterKey(1)} :
          \E value \in EdgeValues \cup ValueInputs : InvokeSet(p, key, value)
    \/ \E key \in EdgeKeys \cup {LetterKey(1)} : InvokeGet(p, key)
    \/ \E key \in EdgeKeys \cup {LetterKey(1)} : InvokeDelete(p, key)
    \/ InvokeStatus(p)

NextEdge == Attach(1) \/ CallEdge(1) \/ Step(1)

SpecEdge == Init /\ [][NextEdge]_vars

\* Keys on both sides of the length limit: "a", "b", "c" and KEY_SIZE
\* times "a".
LongKeys == {LetterKey(n) : n \in 1..(MAX_ENTRIES + 1)} \cup {Rep(KEY_SIZE, 97)}

\* Processes calling concurrently with keys and values that pass the
\* length checks and with ones that do not (VALUE_SIZE times "x").
CallLong(p) ==
    \/ \E key \in LongKeys : CheckStore(store_ptr[p]).ok /\ InvokeSet(p, key, <<120>>)
    \/ CheckStore(store_ptr[p]).ok /\ InvokeSet(p, LetterKey(1), Rep(VALUE_SIZE, 120))
    \/ \E key \in {LetterKey(1), Rep(KEY_SIZE, 97)} :
          CheckStore(store_ptr[p]).ok /\ InvokeGet(p, key)
    \/ InvokeDelete(p, LetterKey(1))
    \/ CheckStore(store_ptr[p]).ok /\ InvokeStatus(p)

NextLong == \E p \in Procs : Attach(p) \/ CallLong(p) \/ Step(p)

SpecLong == Init /\ [][NextLong]_vars

\* Wrappers created, opened, destroyed and unlinked at any time between
\* calls on one key.
CallLife(p) ==
    \/ InvokeSet(p, LetterKey(1), <<120>>)
    \/ InvokeGet(p, LetterKey(1))
    \/ InvokeDelete(p, LetterKey(1))
    \/ InvokeStatus(p)

Lifecycle(p) ==
    \/ Create(p)
    \/ Open(p)
    \/ Destroy(p)
    \/ Unlink(p)

NextLife == \E p \in Procs : Lifecycle(p) \/ CallLife(p) \/ Step(p)

SpecLife == Init /\ [][NextLife]_vars

\* One wrapper through its whole life, a NULL pointer object assigned to
\* it (as test_fix.py does) included.
NextNull == Lifecycle(1) \/ SetNull(1) \/ CallLife(1) \/ Step(1)

SpecNull == Init /\ [][NextNull]_vars

\* Server processes that have not run their startup yet.
InitStart ==
    /\ shm = FALSE
    /\ named = 1
    /\ kv_table = NoTable
    /\ sem = NoSem
    /\ version = NoCount
    /\ entry_count = NoCount
    /\ now = 0
    /\ store_ptr = [p \in Procs |-> "None"]
    /\ at = [p \in Procs |-> 0]
    /\ fd = [p \in Procs |-> -1]
    /\ maps = [p \in Procs |-> 0]
    /\ pc = [p \in Procs |-> "startup"]
    /\ op = [p \in Procs |-> NoOp]
    /\ loc = [p \in Procs |-> NoLoc]
    /\ whole = NoWhole
    /\ lastMut = NoMut
    /\ muts = 0
    /\ scen = NoScen
    /\ rejected = NoReject

\* The server's life around its requests: startup, final check, shutdown.
Lifespan(p) ==
    \/ LifespanOpen(p)
    \/ LifespanCreate(p)
    \/ LifespanCheck(p)
    \/ LifespanShutdown(p)

\* The server's routes on one key: POST /set, GET /get/{key}, GET /status.
ServeOne(p) ==
    \/ InvokeSet(p, LetterKey(1), <<120>>)
    \/ InvokeGet(p, LetterKey(1))
    \/ InvokeStatus(p)

\* The steps of the calls the routes make: no route deletes.
ServeStep(p) ==
    \/ SemWait(p)
    \/ WriteKey(p)
    \/ WriteValue(p)
    \/ SemPost(p)
    \/ StatusStep(p)

NextStart == \E p \in Procs : Lifespan(p) \/ ServeOne(p) \/ ServeStep(p)

SpecStart == InitStart /\ [][NextStart]_vars

\* Processes that attach and then call on one key, none stopping.
NextCalls == \E p \in Procs : Attach(p) \/ CallLife(p) \/ Step(p)

\* The callers under a fair scheduler: a process whose call can take its
\* next step, and stays able to, takes it.  Nothing is assumed of the
\* semaphore beyond that: a waiter is not promised the semaphore when
\* another process takes it first.
Fairness == \A p \in Procs : WF_vars(Step(p))

SpecFair == Init /\ [][NextCalls]_vars /\ Fairness

\* A process dies (is killed) inside the engine, holding the semaphore.
Die(p) ==
    /\ pc[p] \in {"write_key", "write_value", "clear", "sem_post"}
    /\ pc' = [pc EXCEPT ![p] = "dead"]
    /\ UNCHANGED <<segment, now, store_ptr, at, fd, maps, op, loc, whole, lastMut,
                   muts, scen, rejected>>

\* Servers of which any may die while it holds the semaphore.
NextDie == \E p \in Procs : Lifespan(p) \/ ServeOne(p) \/ ServeStep(p) \/ Die(p)

SpecDie == InitStart /\ [][NextDie]_vars

TypeOK ==
    /\ \A s \in Segs : sem[s] \in {0, 1}
    /\ named \in Segs
    /\ \A p \in Procs : at[p] \in Segs <=> store_ptr[p] = "valid"
    /\ \A p \in Procs : at[p] \in Segs \cup {0}
    /\ muts \in 0..MaxMutations
    /\ \A p \in Procs : store_ptr[p] \in {"None", "NULL", "valid"}
    /\ \A p \in Procs : maps[p] \in 0..MaxMaps

\* ------------------------------------------------------------------ claims
\* The memory of the segment the name was last given to.
NamedTable == kv_table[named]
NamedSem == sem[named]
NamedVersion == version[named]
NamedCount == entry_count[named]
committed == whole[named]

Occupied(t) == {i \in Slots : ~SlotFree(t[i])}
KeyBytes(key) == CStr(Utf8Encode(key))
Locked(p) == pc[p] \in {"write_key", "write_value", "clear", "sem_post"}
Inside(p) == Locked(p) \/ InStatus(p)

\* C1: no get and no status reads a slot, version or entry_count while a
\* concurrent put/delete is part-way through its write: a process that is
\* about to read a slot never finds another process part-way through a
\* write of that slot, one about to read the counters (get_status's last
\* two steps) never finds another part-way through a mutation, and a get that
\* has copied its value out never coexists with a partial write.
C1_NoReadMidWrite ==
    \A p \in Procs : \A q \in Procs \ {p} :
        at[p] = at[q] =>
            /\ (pc[p] \in {"st_loop", "st_key", "st_value", "st_ts"} /\ MidWrite(q))
                  => loc[q].idx # loc[p].i
            /\ pc[p] \in {"st_version", "st_ret"} => ~MidWrite(q)
            /\ (Returning(p) /\ op[p].name = "get") => ~MidWrite(q)

\* C2: the Guard gives mutual exclusion with scoped acquisition: whoever is
\* inside put, get, delete or status on a segment holds its Guard (so at
\* most one process is inside at a time), and the Guard of a segment is free
\* whenever nobody holds it.
C2_MutualExclusion ==
    /\ \A p \in Procs : Inside(p) => sem[at[p]] = 0
    /\ \A s \in Segs : Cardinality({p \in Procs : Inside(p) /\ at[p] = s}) <= 1
    /\ \A s \in Segs : (\A p \in Procs : ~(Locked(p) /\ at[p] = s)) => sem[s] = 1

\* C3: put/get/delete/status are linearizable: every call returns what it
\* would return run alone on the table as the last whole mutation left it
\* (a status result carries the version, which names that table).
C3_Linearizable ==
    \A p \in Procs :
        /\ StatusReturning(p) => StatusResult(p) = Snapshot(whole[at[p]])
        /\ (Returning(p) /\ op[p].name = "get") =>
              LET i == FindKey(whole[at[p]].table, loc[p].kb)
              IN IF i = 0 THEN GetReturn(p).isNone
                 ELSE /\ ~GetReturn(p).isNone
                      /\ GetReturn(p).value = Utf8Decode(whole[at[p]].table[i].value)
        /\ (Returning(p) /\ op[p].name = "delete") =>
              (EngReturn(p).result = 0 <=> FindKey(whole[at[p]].table, loc[p].kb) # 0)

\* C4: outside an in-progress operation entry_count equals the number of
\* occupied slots, for every key the binding accepts.
C4_CountIsOccupied ==
    NamedSem = 1 => NamedCount = Cardinality(Occupied(NamedTable))

\* C5: keys are unique among occupied slots in every reachable state, and
\* status never lists a key twice.
C5_UniqueKeys ==
    /\ \A i \in Slots : \A j \in Slots :
          (i # j /\ ~SlotFree(NamedTable[i]) /\ ~SlotFree(NamedTable[j]))
              => NamedTable[i].key # NamedTable[j].key
    /\ \A p \in Procs : StatusReturning(p) =>
          \A i \in DOMAIN loc[p].entries : \A j \in DOMAIN loc[p].entries :
              i # j => StatusResult(p).entries[i].key # StatusResult(p).entries[j].key

\* C6: round trip: a get(k) whose last preceding mutation of the table is a
\* successful put(k, v) returns exactly v (stated for the keys that are not
\* empty; the empty key is C4's case).
C6_RoundTrip ==
    \A p \in Procs :
        (Returning(p) /\ op[p].name = "get" /\ lastMut.op = "set"
                      /\ lastMut.key = op[p].key /\ op[p].key # <<>>)
            => (~GetReturn(p).isNone /\ GetReturn(p).value = lastMut.value)

\* C7: overwrite: a put on a key already present succeeds (also when the
\* store is full), keeps the key in its slot, leaves every other slot and
\* entry_count unchanged, and a following get returns the new value.
C7_Overwrite ==
    /\ \A p \in Procs :
          (Returning(p) /\ op[p].name = "set"
                        /\ FindKey(committed.table, loc[p].kb) # 0)
              => LET i == FindKey(committed.table, loc[p].kb)
                 IN /\ SetReturn(p).ok
                    /\ NamedTable[i].key = committed.table[i].key
                    /\ NamedTable[i].value = loc[p].vb
                    /\ \A j \in Slots \ {i} : NamedTable[j] = committed.table[j]
    /\ lastMut.plan = "overwrite" => committed.entry_count = lastMut.nBefore
    /\ \A p \in Procs :
          (Returning(p) /\ op[p].name = "get" /\ lastMut.plan = "overwrite"
                        /\ lastMut.key = op[p].key)
              => (~GetReturn(p).isNone /\ GetReturn(p).value = lastMut.value)

\* C8: delete(k) on a present key frees exactly that slot and takes exactly
\* 1 off entry_count, after which get(k) fails, NotFound in the engine;
\* delete(k) on an absent key fails NotFound and changes nothing.
C8_Delete ==
    /\ \A p \in Procs :
          (Returning(p) /\ op[p].name = "delete") =>
              LET i == FindKey(committed.table, loc[p].kb)
              IN IF i # 0
                 THEN /\ EngReturn(p).result = 0
                      /\ NamedTable = [committed.table EXCEPT ![i] = EmptySlot]
                 ELSE /\ EngReturn(p).eng = "NotFound"
                      /\ NamedTable = committed.table
    /\ lastMut.op = "delete" =>
          /\ lastMut.nBefore >= 1
          /\ committed.entry_count = lastMut.nBefore - 1
          /\ Cardinality(Occupied(committed.table)) < MAX_ENTRIES
    /\ \A p \in Procs :
          (Returning(p) /\ op[p].name = "get" /\ lastMut.op = "delete"
                        /\ KeyBytes(lastMut.key) = loc[p].kb)
              => (EngReturn(p).eng = "NotFound" /\ GetReturn(p).isNone)
    /\ NamedSem = 1 => Segment(NamedTable, NamedVersion, NamedCount) = committed

\* Witness of C8: a get of the key that the last mutation deleted is about
\* to return.
C8_Witness ==
    \E p \in Procs :
        /\ Returning(p) /\ op[p].name = "get"
        /\ lastMut.op = "delete" /\ KeyBytes(lastMut.key) = loc[p].kb

\* C9: put fails StoreFull iff the key is not present and entry_count is
\* MAX_ENTRIES at the moment of the put, and a StoreFull failure leaves the
\* table untouched.
C9_StoreFull ==
    \A p \in Procs :
        (Returning(p) /\ op[p].name = "set") =>
            /\ EngReturn(p).eng = "StoreFull" <=>
                  (FindKey(committed.table, loc[p].kb) = 0
                   /\ committed.entry_count = MAX_ENTRIES)
            /\ EngReturn(p).eng = "StoreFull" => NamedTable = committed.table

\* C10: slot reuse at capacity: once a put has failed StoreFull with
\* entry_count = MAX_ENTRIES and a key has then been deleted, a put of a key
\* not in the table succeeds, lands in the freed slot, and entry_count is
\* MAX_ENTRIES again.
C10_SlotReuse ==
    /\ \A p \in Procs :
          (scen.stage = 2 /\ Returning(p) /\ op[p].name = "set"
                          /\ FindKey(committed.table, loc[p].kb) = 0)
              => /\ SetReturn(p).ok
                 /\ loc[p].idx = scen.idx
                 /\ NamedTable[scen.idx].key = loc[p].kb
                 /\ NamedTable[scen.idx].value = loc[p].vb
    /\ scen.stage = 3 =>
          /\ committed.entry_count = MAX_ENTRIES
          /\ committed.table[scen.idx].key = KeyBytes(lastMut.key)
          /\ lastMut.idx = scen.idx

\* Witness of C10: the put after the delete has gone through.
C10_Witness == scen.stage = 3 /\ lastMut.key # <<>>

\* A step in which process p returns from the engine.
EngineReturnStep(p) == pc[p] = "sem_post" /\ pc'[p] = "idle"

\* A step in which a set or get is turned away as too long.
TooLongStep ==
    /\ rejected' # rejected
    /\ rejected'.ret \in {"Key too long", "Value too long"}

\* C11: version moves by exactly +1 in the step that completes a successful
\* put (insert or overwrite) or a successful delete, and no other step of
\* any process changes it: not a get, not a put or delete that failed
\* StoreFull or NotFound, not a set or get turned away as too long (which
\* changes nothing in the segment), not a step of get_status, not an attach
\* to the existing segment.
C11_VersionStep ==
    [][ /\ \A p \in Procs : EngineReturnStep(p) =>
              LET succeeded == \/ op[p].name = "set" /\ SetReturn(p).ok
                               \/ op[p].name = "delete" /\ EngReturn(p).result = 0
              IN NamedVersion' = IF succeeded THEN Inc32(NamedVersion) ELSE NamedVersion
        /\ (shm /\ \A p \in Procs : ~EngineReturnStep(p)) => NamedVersion' = NamedVersion
        /\ TooLongStep => UNCHANGED <<segment, pc, whole, muts>>
      ]_vars

\* Witness of C11: the version has moved, a put that failed StoreFull is
\* about to return, and meanwhile a call of another process was turned away
\* as too long.
C11_Witness ==
    \E p \in Procs :
        /\ Returning(p) /\ op[p].name = "set" /\ ~SetReturn(p).ok
        /\ muts >= 1 /\ NamedVersion = committed.version
        /\ rejected.proc # p /\ rejected.ret \in {"Key too long", "Value too long"}

\* C12: version never decreases: while the segment exists it is never below
\* the 1 it starts at, and after any mutation it is not below (as an
\* unsigned 32-bit number) what it was before that mutation.
C12_VersionMonotone ==
    shm => /\ ~ULess(NamedVersion, 1)
           /\ lastMut.op # "none" => ~ULess(NamedVersion, lastMut.vBefore)

\* A call of p that has gone past the wrapper's checks into the engine.
InEngine(p) == pc[p] \in {"sem_wait", "write_key", "write_value", "clear", "sem_post"}

\* C13, the boundary: a set or get is turned away as too long exactly when
\* its key has KEY_SIZE bytes or more (whatever the value), a set with
\* a shorter key exactly when its value has VALUE_SIZE bytes or more, and
\* whatever reaches the engine is shorter than both limits.
C13_Boundary ==
    /\ rejected.ret = "Key too long" =>
          /\ rejected.name \in {"set", "get"}
          /\ Len(Utf8Encode(rejected.key)) >= KEY_SIZE
    /\ rejected.ret = "Value too long" =>
          /\ rejected.name = "set"
          /\ Len(Utf8Encode(rejected.key)) < KEY_SIZE
          /\ Len(Utf8Encode(rejected.value)) >= VALUE_SIZE
    /\ \A p \in Procs : (InEngine(p) /\ op[p].name \in {"set", "get"}) =>
          /\ Len(Utf8Encode(op[p].key)) <= KEY_SIZE - 1
          /\ op[p].name = "set" => Len(Utf8Encode(op[p].value)) <= VALUE_SIZE - 1

\* C13, the frame: a call turned away leaves the table, entry_count and
\* version as the last whole mutation left them.
C13_Untouched ==
    rejected.name # "none" =>
        (NamedSem = 1 /\ Segment(NamedTable, NamedVersion, NamedCount) = committed)

\* C13, no truncation: what the last put stored is, byte for byte, the
\* key and the value it was given.
C13_NotTruncated ==
    lastMut.op = "set" =>
        /\ committed.table[lastMut.idx].key = Utf8Encode(lastMut.key)
        /\ committed.table[lastMut.idx].value = Utf8Encode(lastMut.value)

\* C13: length validation is a boundary at KEY_SIZE / VALUE_SIZE, happens
\* before any state is touched, a too-long key is reported as KeyTooLong
\* even when the value is too long as well, and no stored key or value is
\* ever truncated.
C13_LengthBoundary == C13_Boundary /\ C13_Untouched /\ C13_NotTruncated

\* C14: a wrapper without a valid handle (never attached, a NULL pointer
\* object, after a failed create/open, after destroy) answers set and get
\* with "Store not initialized" and get_status with None, is left with
\* store_ptr None, and never gets into the engine or into the table; and
\* only such a wrapper gives these answers.
C14_NotInitialized ==
    /\ \A p \in Procs : (InEngine(p) \/ InStatus(p)) => store_ptr[p] = "valid"
    /\ \A p \in Procs : store_ptr[p] = "valid" => maps[p] >= 1
    /\ (rejected.name # "none" /\ rejected.sp # "valid") =>
          /\ ~CheckStore(rejected.sp).ok
          /\ rejected.ret = IF rejected.name = "get_status" THEN "None"
                            ELSE "Store not initialized"
          /\ store_ptr[rejected.proc] = "None"
    /\ rejected.ret \in {"Store not initialized", "None"} => rejected.sp # "valid"

\* Witness of C14: a set on a wrapper holding a NULL pointer object has
\* just been answered.
C14_Witness == rejected.name = "set" /\ rejected.sp = "NULL"

\* A step in which process p gives up a mapping.
UnmapStep(p) == maps'[p] < maps[p]

\* What segment s holds.
Contents(s) == <<kv_table[s], sem[s], version[s], entry_count[s]>>

\* C15: destroy is idempotent and local.  A mapping is given up only by an
\* initialized wrapper, one mapping at a time, and leaves that wrapper with
\* store_ptr None and fd -1; a destroy on a wrapper that is not initialized
\* unmaps nothing; and no step that gives up a mapping changes the name's
\* existence, the contents of any segment that the name or a wrapper still
\* reaches, or any other process's wrapper, mappings or call in progress.
C15_DestroyLocal ==
    [][ \A p \in Procs :
          /\ UnmapStep(p) =>
                /\ CheckStore(store_ptr[p]).ok
                /\ maps'[p] = maps[p] - 1
                /\ store_ptr'[p] = "None" /\ fd'[p] = -1
                /\ UNCHANGED <<shm, named>>
                /\ \A s \in Segs :
                      Kept(s, named', store_ptr', at') => Contents(s)' = Contents(s)
                /\ \A q \in Procs \ {p} :
                      /\ store_ptr'[q] = store_ptr[q] /\ fd'[q] = fd[q]
                      /\ at'[q] = at[q]
                      /\ maps'[q] = maps[q] /\ pc'[q] = pc[q]
          /\ (Destroy(p) /\ ~CheckStore(store_ptr[p]).ok) =>
                (maps' = maps /\ fd' = fd /\ store_ptr'[p] = "None")
          /\ maps'[p] >= 0
      ]_vars

\* Witness of C15: every wrapper has given up its mapping and the segment
\* is still there, holding the entry that was put.
C15_Witness ==
    /\ shm /\ committed.entry_count = 1
    /\ Segment(NamedTable, NamedVersion, NamedCount) = committed
    /\ \A p \in Procs : maps[p] = 0 /\ store_ptr[p] = "None" /\ fd[p] = -1

\* A step that changes what the segment holds.
ContentsStep == <<NamedTable, NamedSem, NamedVersion, NamedCount>>' # <<NamedTable, NamedSem, NamedVersion, NamedCount>>

\* C16: an existing segment is never initialised again.  While the name
\* exists, the only steps that change the table, the counters or the
\* semaphore are steps of a call inside the engine, and in such a step no
\* wrapper attaches; a segment is initialised (version 1, entry_count 0,
\* empty table) only in the step that brings the name into existence; and
\* create on an existing name returns False.
C16_NoReinit ==
    /\ CreateReturn(TRUE) = FALSE /\ OpenReturn(TRUE) = TRUE
    /\ [][ /\ (shm /\ ContentsStep) =>
                (/\ maps' = maps /\ store_ptr' = store_ptr
                 /\ \E p \in Procs : InEngine(p) /\ pc'[p] # pc[p])
           /\ (~shm /\ shm') =>
                (NamedTable' = ZeroTable /\ NamedVersion' = 1 /\ NamedCount' = 0 /\ NamedSem' = 1)
           /\ (shm /\ committed.version = 1 + muts) => committed'.version = 1 + muts'
         ]_vars

\* Witness of C16: a server lost the startup race (its open found no
\* segment, its create found one) and the segment holds the data put by
\* the other.
C16_Witness ==
    \E p \in Procs : \E q \in Procs :
        /\ pc[p] = "exited" /\ store_ptr[q] = "valid"
        /\ committed.entry_count = 1 /\ muts >= 1
        /\ Segment(NamedTable, NamedVersion, NamedCount) = committed

\* C17: unlink.  unlink() fails when there is no segment of the name and
\* succeeds when there is one; while the name does not exist open() fails
\* and a process comes to hold a new mapping only in a step that creates a
\* fresh segment; the step that removes the name changes no wrapper, no
\* mapping, no call in progress and nothing in any segment; and the calls of
\* a wrapper go on working on the segment it is attached to, whether the
\* name still exists, is gone, or has been given to a new segment since.
C17_Unlink ==
    /\ UnlinkReturn(FALSE) = FALSE /\ UnlinkReturn(TRUE) = TRUE
    /\ OpenReturn(FALSE) = FALSE
    /\ [][ /\ \A p \in Procs : (~shm /\ maps'[p] > maps[p]) =>
                (shm' /\ NamedTable' = ZeroTable /\ NamedVersion' = 1 /\ NamedCount' = 0)
           /\ (shm /\ ~shm') =>
                UNCHANGED <<named, kv_table, sem, version, entry_count, store_ptr, at, fd,
                            maps, pc, op, loc>>
           /\ (~shm /\ shm') => \E p \in Procs : maps'[p] > maps[p]
         ]_vars
    /\ [](\A p \in Procs :
            store_ptr[p] = "valid" =>
                LET mine == whole[at[p]]
                IN /\ (Returning(p) /\ op[p].name = "set") => SetReturn(p).ok
                   /\ (Returning(p) /\ op[p].name = "get"
                                    /\ FindKey(mine.table, loc[p].kb) # 0) =>
                          /\ ~GetReturn(p).isNone
                          /\ GetReturn(p).value =
                                Utf8Decode(mine.table[FindKey(mine.table, loc[p].kb)].value)
                   /\ (Returning(p) /\ op[p].name = "delete") =>
                          (EngReturn(p).result = 0 <=> FindKey(mine.table, loc[p].kb) # 0)
                   /\ StatusReturning(p) => StatusResult(p).version \in 1..mine.version)

\* Witness of C17: the name was unlinked and given to a new segment, and a
\* wrapper attached before the unlink is returning, from a get on the old
\* segment, the value that was put there.
C17_Witness ==
    \E p \in Procs :
        /\ shm /\ store_ptr[p] = "valid" /\ at[p] # named
        /\ Returning(p) /\ op[p].name = "get" /\ ~GetReturn(p).isNone

\* Some process has died holding the Guard.
Wedged == \E p \in Procs : pc[p] = "dead"

\* C18: once a process has died holding the Guard, the Guard is never
\* free again and no call of any other process gets past its start: a
\* process that is between calls or waiting for the Guard stays between
\* calls or waiting until it shuts down (it never starts reading the
\* table, never enters the engine, so never returns from a put, get,
\* delete or status).
C18_Wedged ==
    /\ [](Wedged => NamedSem = 0)
    /\ [][ Wedged => \A q \in Procs :
                        pc[q] \in {"idle", "sem_wait"} =>
                            pc'[q] \in {"idle", "sem_wait", "stopped"}
         ]_vars

\* C19: a missing key is reported as 404: when a get on an attached store
\* finds no slot with the key, the wrapper's get returns the error
\* "Key not found" and GET /get/{key} answers 404, not 500.
C19_NotFound404 ==
    \A p \in Procs :
        (Returning(p) /\ op[p].name = "get" /\ loc[p].plan = "notfound") =>
            /\ GetReturn(p).isNone
            /\ GetError(p) = "Key not found"
            /\ GetAnswer(p) = 404

\* C20: a full store is reported as 507: a set of a key that is not in the
\* table while entry_count is MAX_ENTRIES makes POST /set answer 507, a set
\* turned away for a too long key or value makes it answer 413, and no
\* failure that the engine reports as StoreFull is answered with 400.
C20_Full507 ==
    /\ \A p \in Procs :
          (Returning(p) /\ op[p].name = "set") =>
              /\ (FindKey(committed.table, loc[p].kb) = 0
                  /\ committed.entry_count = MAX_ENTRIES) => SetAnswer(p) = 507
              /\ EngReturn(p).eng = "StoreFull" => SetAnswer(p) # 400
    /\ (rejected.name = "set" /\ rejected.ret \in {"Key too long", "Value too long"}) =>
          SetStatusCode(FALSE, EarlyText(rejected.ret)) = 413

\* C20, the lengths alone: a set turned away as too long is answered 413.
C20_TooLong413 ==
    (rejected.name = "set" /\ rejected.ret \in {"Key too long", "Value too long"}) =>
        SetStatusCode(FALSE, EarlyText(rejected.ret)) = 413

\* C20, with the empty key left out: the engine reports exactly the sets of
\* a new key at entry_count = MAX_ENTRIES as StoreFull, and the wrapper's
\* message for them carries ctypes' errno, which is 0.
C20_FullMessage ==
    \A p \in Procs :
        (Returning(p) /\ op[p].name = "set" /\ EngReturn(p).eng = "StoreFull") =>
            /\ ~SetReturn(p).ok
            /\ SetError(p) = "Error setting key: errno=0"
            /\ SetAnswer(p) = 400

\* C22, the mappings: the live mappings of a wrapper are the one its
\* store_ptr points to, if any; none is left behind by a store_ptr that was
\* replaced or cleared.
C22_Held ==
    \A p \in Procs : maps[p] = (IF store_ptr[p] = "valid" THEN 1 ELSE 0)

\* C22, the results: create() and open() return True exactly when the
\* pointer they leave in the wrapper is usable.
C22_Returns ==
    \A exists \in BOOLEAN :
        /\ CreateReturn(exists) <=> CheckStore(CheckStore(EngCreate(exists)).ptr).ok
        /\ OpenReturn(exists) <=> CheckStore(CheckStore(EngOpen(exists)).ptr).ok

\* C22: a wrapper holds at most one live mapping at any time and every
\* mapping a successful create() or open() gave it is handed to the engine's
\* destroy before store_ptr and fd are replaced or cleared; create() and
\* open() return True exactly when the wrapper is initialized afterwards.
C22_OneMapping == C22_Held /\ C22_Returns

\* A call of p that has been invoked and has not returned.
Invoked(p) == InEngine(p) \/ InStatus(p)

\* C21, the waiting: a call that cannot take its next step is in sem_wait
\* and the semaphore is taken.
C21_OnlyGuardWaits ==
    \A p \in Procs :
        Invoked(p) => (ENABLED Step(p)) \/ (pc[p] = "sem_wait" /\ NamedSem = 0)

\* C21 as claimed: when no process stops while it holds the semaphore and
\* the scheduler is fair, every set, get, delete and get_status that was
\* invoked returns, and the only place where a call waits is the
\* acquisition of the semaphore.
C21_Returns == []C21_OnlyGuardWaits /\ \A p \in Procs : Invoked(p) ~> (pc[p] = "idle")

\* A call of p that does not wait for the semaphore (get_status) or has
\* acquired it.
PastGuard(p) == Invoked(p) /\ pc[p] # "sem_wait"

\* C21, amended: when no process stops while it holds the semaphore and the
\* scheduler is fair, the only place where a call waits is the acquisition
\* of the semaphore; every get_status, and every set, get and delete that
\* has acquired the semaphore, returns; and a call waits for the semaphore
\* for ever only if calls of other processes keep acquiring it and
\* returning (the semaphore itself is never stuck).  A waiting call is not
\* promised to return: nothing hands the semaphore to a waiter.
C21_Progress ==
    /\ []C21_OnlyGuardWaits
    /\ \A p \in Procs : PastGuard(p) ~> (pc[p] = "idle")
    /\ \A p \in Procs :
          (pc[p] = "sem_wait") ~>
              (PastGuard(p) \/ \E q \in Procs \ {p} : Returning(q))

\* Witness of C21: a set waits for the semaphore another call holds.

C21_Witness ==
    \E p, q \in Procs :
        /\ pc[p] = "sem_wait" /\ op[p].name = "set"
        /\ NamedSem = 0
        /\ pc[q] \in {"write_key", "write_value", "clear", "sem_post"}

============================================================================
